---- MODULE Spec2Model ----
(***************************************************************************)
(* Model of src/main.py: the Telegram webhook handler of the PDF -> text   *)
(* bot (session state, delivery deduplication, feedback ledger, large-scan *)
(* choice) and the page-parallel recognition loop of                       *)
(* extract_text_from_pdf.                                                  *)
(*                                                                         *)
(* Python strings that the code splits, concatenates or parses are         *)
(* sequences of one-character strings, so that str(), split(),             *)
(* startswith() and int() are modelled by what they do.  Message texts and *)
(* the texts of replies are compared only for equality and are atoms.      *)
(***************************************************************************)
EXTENDS Integers, Sequences, FiniteSets, TLC

(***************************************************************************)
(* Bounds of the model.                                                    *)
(***************************************************************************)
MaxEvents == 5
MaxTicks == 2
MaxPages == 25
MaxOcrPages == 3
MaxText == 4

(***************************************************************************)
(* Program constants.                                                      *)
(***************************************************************************)
CACHE_LIMIT == 1000
WAIT_TTL == 1800
CHUNK == 10
MAX_WORKERS == 4

Chats == {1, 2}
ADMIN_CHAT_ID == 1

(***************************************************************************)
(* Python string operations on sequences of characters.                    *)
(***************************************************************************)
Digits == <<"0", "1", "2", "3", "4", "5", "6", "7", "8", "9">>

RECURSIVE Str(_)
Str(n) ==
    IF n < 10 THEN <<Digits[n + 1]>>
    ELSE Str(n \div 10) \o <<Digits[(n % 10) + 1]>>

StartsWith(s, p) ==
    /\ Len(s) >= Len(p)
    /\ SubSeq(s, 1, Len(p)) = p

\* str.split(sep) for a one-character separator: the pieces between the
\* separators, in order (always at least one piece).
RECURSIVE SplitFrom(_, _, _, _)
SplitFrom(s, sep, i, cur) ==
    IF i > Len(s) THEN <<cur>>
    ELSE IF s[i] = sep THEN <<cur>> \o SplitFrom(s, sep, i + 1, <<>>)
    ELSE SplitFrom(s, sep, i + 1, Append(cur, s[i]))

Split(s, sep) == SplitFrom(s, sep, 1, <<>>)

DigitValue(c) == CHOOSE d \in 0 .. 9 : Digits[d + 1] = c

IsDigit(c) == \E d \in 0 .. 9 : Digits[d + 1] = c

RECURSIVE IntOf(_)
IntOf(s) ==
    IF Len(s) = 1 THEN DigitValue(s[1])
    ELSE 10 * IntOf(SubSeq(s, 1, Len(s) - 1)) + DigitValue(s[Len(s)])

\* int(s) of a string of decimal digits; ValueError is the value -1.
ParseInt(s) ==
    IF Len(s) > 0 /\ \A i \in 1 .. Len(s) : IsDigit(s[i]) THEN IntOf(s) ELSE -1

(***************************************************************************)
(* Optional values (None or a value) are sequences of length 0 or 1.       *)
(***************************************************************************)
None == <<>>
Some(x) == <<x>>

(***************************************************************************)
(* State.  The five module-level collections of main.py, the feedback      *)
(* table of the database, the wall clock, the inline buttons the bot has   *)
(* sent to each chat, and, for the event handled last, the event itself,   *)
(* the ordered trace of what its handler did, how its outbound posts ended *)
(* and the HTTP response; one recognition call and one normalizer run.     *)
(***************************************************************************)
VARIABLES
    processed_messages,     \* set of message hashes
    processed_callback_ids, \* set of callback ids
    user_states,            \* chat -> None | Some([waiting_for_file, timestamp])
    pending_files,          \* chat -> None | Some([file, doc, num_pages, created_at])
    awaiting_comment,       \* chat -> None | Some(conversion id)
    feedback,               \* rows of the feedback table
    now,                    \* time.time()
    ticks,                  \* number of clock advances so far
    msg_count,              \* chat -> number of messages the chat has sent
    cb_count,               \* number of buttons pressed so far
    issued,                 \* chat -> callback_data of the buttons sent to it
    ev,                     \* the inbound event handled last
    out,                    \* what the handler of ev did, in order
    ocr,                    \* one recognition call of extract_text_from_pdf
    net,                    \* how the outbound sends of the handler of ev ended
    response,               \* the HTTP response to ev
    norm,                   \* one text on its way through clean_text
    threads,                \* two request threads of the server
    prompts                 \* per chat, the files whose choice prompt is on display

vars == <<processed_messages, processed_callback_ids, user_states,
          pending_files, awaiting_comment, feedback, now, ticks, msg_count,
          cb_count, issued, ev, out, ocr, net, response, norm, threads,
          prompts>>

(***************************************************************************)
(* Texts of inbound messages (atoms) and the documents a message carries.  *)
(***************************************************************************)
UPLOAD_TEXT == "send_pdf_button"
INFO_TEXT == "capabilities_button"
QUESTION_TEXT == "what file size is allowed"
Texts == {"/start", "/stop", "/stats", "/statistic", UPLOAD_TEXT, INFO_TEXT,
          QUESTION_TEXT, "hello"}

\* handle_file_questions: a file keyword and a question keyword both occur.
handle_file_questions(text) == text = QUESTION_TEXT

MB == 1024 * 1024
PDF == "application/pdf"

\* What PyPDF2 finds in the downloaded bytes: parse is "ok", "text_fail"
\* (page.extract_text raises, len(reader.pages) works) or "fail" (PdfReader
\* raises); blank is whether the joined embedded text strips to "".
DocShape(mime, size, parse, blank, pages) ==
    [mime |-> mime, file_size |-> size, parse |-> parse, blank |-> blank,
     pages |-> pages]

NoDoc == DocShape("", 0, "fail", TRUE, 0)

Docs ==
    { DocShape(PDF, 1000, "ok", FALSE, 3),
      DocShape(PDF, 1000, "ok", TRUE, 3),
      DocShape(PDF, 1000, "ok", TRUE, CHUNK),
      DocShape(PDF, 1000, "ok", TRUE, CHUNK + 1),
      DocShape(PDF, 11 * MB, "ok", TRUE, 2 * CHUNK),
      DocShape(PDF, 1000, "ok", TRUE, MaxPages),
      DocShape(PDF, 1000, "ok", FALSE, MaxPages),
      DocShape(PDF, 1000, "text_fail", TRUE, MaxPages),
      DocShape(PDF, 1000, "fail", TRUE, 0),
      DocShape(PDF, 0, "fail", TRUE, 0),
      DocShape(PDF, 21 * MB, "ok", FALSE, 3),
      DocShape(PDF, 51 * MB, "ok", FALSE, 3),
      DocShape("image/png", 1000, "fail", TRUE, 0) }

\* An inbound event: a message (kind "text", "document" or "other") or a
\* button press (kind "callback").
Event(kind, chat, id, date, text, doc, data) ==
    [kind |-> kind, chat |-> chat, id |-> id, date |-> date, text |-> text,
     doc |-> doc, data |-> data, prompt |-> 0]

NoEvent == Event("none", 0, 0, 0, "", NoDoc, <<>>)
TickEvent == Event("tick", 0, 0, 0, "", NoDoc, <<>>)

(***************************************************************************)
(* The trace of a handler: outbound calls and the calls into the           *)
(* extraction engine, in program order.                                    *)
(***************************************************************************)
Effect(op, chat, text, file, fp, lp, kb) ==
    [op |-> op, chat |-> chat, text |-> text, file |-> file, fp |-> fp,
     lp |-> lp, kb |-> kb, res |-> ""]

send_message(chat, text) == Effect("send_message", chat, text, 0, 0, 0, <<>>)
send_keyboard(chat, text, kb) == Effect("send_message", chat, text, 0, 0, 0, kb)
send_document(chat, name, file, fp, lp) ==
    Effect("send_document", chat, name, file, fp, lp, <<>>)
log_event(chat, event) == Effect("log_event", chat, event, 0, 0, 0, <<>>)
log_error(chat, code) == Effect("log_error", chat, code, 0, 0, 0, <<>>)
answer_callback_query(chat) ==
    Effect("answer_callback_query", chat, "", 0, 0, 0, <<>>)
download(chat, file) == Effect("download", chat, "", file, 0, 0, <<>>)
\* A call of extract_text_from_pdf that took path ex.path ("direct", or
\* "ocr": rasterization and page recognition) and ended as ex.result
\* ("text", "blank" or "raise"); fp..lp is the page range handed to
\* rasterization.
extract_call(chat, ex, file, fp, lp) ==
    [Effect("extract_text_from_pdf", chat, ex.path, file, fp, lp, <<>>)
        EXCEPT !.res = ex.result]

(***************************************************************************)
(* Delivery deduplication.  md5 is taken to be injective, so the hash of a *)
(* message is the string it is computed from: str(message_id) + str(date). *)
(***************************************************************************)
get_message_hash(message_id, date) == Str(message_id) \o Str(date)

is_message_processed(seen, h) == h \in seen

mark_message_processed(seen, h) ==
    LET added == seen \cup {h}
    IN  IF Cardinality(added) > CACHE_LIMIT THEN {} ELSE added

\* Hashes of n messages handled before the modelled events (ids the
\* modelled messages do not reach).
PriorHashes(n) == { get_message_hash(CACHE_LIMIT + i, 0) : i \in 1 .. n }

(***************************************************************************)
(* Session state.                                                          *)
(***************************************************************************)
set_user_waiting_for_file(states, chat, waiting, t) ==
    [states EXCEPT ![chat] =
        IF waiting THEN Some([waiting_for_file |-> TRUE, timestamp |-> t])
        ELSE None]

\* Mutant of Expired: the entry expires when it is exactly WAIT_TTL old.
ExpiredAtLimit(states, chat, t) ==
    /\ states[chat] # None
    /\ t - states[chat][1].timestamp >= WAIT_TTL

\* Line 242: the entry of the chat is older than the time-to-live.
Expired(states, chat, t) ==
    /\ states[chat] # None
    /\ t - states[chat][1].timestamp > WAIT_TTL

\* Mutant of is_user_waiting_for_file: the time-to-live is not checked.
is_user_waiting_no_expiry(states, chat, t) ==
    /\ states[chat] # None
    /\ states[chat][1].waiting_for_file

\* The value is_user_waiting_for_file returns ...
is_user_waiting_for_file(states, chat, t) ==
    /\ states[chat] # None
    /\ ~Expired(states, chat, t)
    /\ states[chat][1].waiting_for_file

\* ... and user_states after the call (an expired entry is popped).
user_states_checked(states, chat, t) ==
    IF Expired(states, chat, t) THEN [states EXCEPT ![chat] = None]
    ELSE states

(***************************************************************************)
(* Feedback ledger: the feedback table and its upsert.                     *)
(***************************************************************************)
FeedbackRow(user, conv, rating, comment) ==
    [user_id |-> user, conversion_id |-> conv, rating |-> rating,
     comment |-> comment]

Coalesce(a, b) == IF a # None THEN a ELSE b

HasRow(table, user, conv) ==
    \E r \in table : r.user_id = user /\ r.conversion_id = conv

save_feedback(table, user, conv, rating, comment) ==
    IF HasRow(table, user, conv)
    THEN { IF r.user_id = user /\ r.conversion_id = conv
           THEN FeedbackRow(user, conv, Coalesce(rating, r.rating),
                            Coalesce(comment, r.comment))
           ELSE r : r \in table }
    ELSE table \cup {FeedbackRow(user, conv, rating, comment)}

\* Mutant of get_feedback: the lookup finds no row.
get_feedback_unavailable(table, user, conv) == FALSE

\* Truthiness of the row get_feedback returns.
get_feedback(table, user, conv) == HasRow(table, user, conv)

(***************************************************************************)
(* Inline keyboards and the callback_data of their buttons.                *)
(***************************************************************************)
RATE_PREFIX == <<"R", "A", "T", "E", "_">>
FB_COMMENT_PREFIX == <<"F", "B", "_", "C", "O", "M", "M", "E", "N", "T", "|">>
SPLIT_PDF == <<"S", "P", "L", "I", "T", "_", "P", "D", "F">>
OCR_FIRST_10 == <<"O", "C", "R", "_", "F", "I", "R", "S", "T", "_", "1", "0">>

\* f"{message_id}_{int(time.time())}"
conversion_id(message_id, t) == Str(message_id) \o <<"_">> \o Str(t)

rate_button(r, conv) == RATE_PREFIX \o Str(r) \o <<"|">> \o conv
comment_button(conv) == FB_COMMENT_PREFIX \o conv

build_rating_keyboard(conv) ==
    <<rate_button(1, conv), rate_button(2, conv), rate_button(3, conv),
      rate_button(4, conv), rate_button(5, conv), comment_button(conv)>>

build_split_options_keyboard == <<SPLIT_PDF, OCR_FIRST_10>>

Range(seq) == { seq[i] : i \in 1 .. Len(seq) }

\* The RATE_ branch's parsing: payload = action.split("_")[1];
\* rating_str, conv_id = payload.split("|"); rating = int(rating_str).
\* ok is FALSE where Python raises.
parse_rate(action) ==
    LET payload == Split(action, "_")[2]
        parts == Split(payload, "|")
        good == Len(parts) = 2 /\ ParseInt(parts[1]) >= 0
    IN  [ok |-> good,
         rating |-> IF good THEN ParseInt(parts[1]) ELSE 0,
         conv_id |-> IF good THEN parts[2] ELSE <<>>]

\* The FB_COMMENT| branch's parsing: conv_id = action.split("|")[1].
parse_comment(action) == Split(action, "|")[2]

(***************************************************************************)
(* The handler works on a record of the collections; the actions below     *)
(* read it from the variables and write it back.                           *)
(***************************************************************************)
Store ==
    [processed_messages |-> processed_messages,
     processed_callback_ids |-> processed_callback_ids,
     user_states |-> user_states,
     pending_files |-> pending_files,
     awaiting_comment |-> awaiting_comment,
     feedback |-> feedback,
     issued |-> issued,
     out |-> <<>>]

Emits(s, effects) == [s EXCEPT !.out = @ \o effects]

Min(a, b) == IF a < b THEN a ELSE b

FileOf(chat, message_id) == chat * 1000 + message_id

Outcomes == {"text", "blank", "raise"}
Fetches == {"ok", "getFile_not_ok", "download_not_ok", "exception"}

(***************************************************************************)
(* extract_text_from_pdf, seen from its caller: which path it takes and    *)
(* how it ends.  Direct extraction reads the same bytes the handler has    *)
(* analysed; the recognition path ends as the environment decides (res):   *)
(* non-blank text, blank text, or an exception (rasterization failed).     *)
(* Empty bytes cannot be rasterized.                                       *)
(***************************************************************************)
\* The page range handed to convert_from_bytes (lines 520-524): first_page
\* and last_page default to 1 and max_pages_default = 10, and are swapped
\* when they come in the wrong order.  The page count of the file is not
\* known here.
page_range(first_page, last_page) ==
    LET fp == IF first_page # None THEN first_page[1] ELSE 1
        lp == IF last_page # None THEN last_page[1] ELSE CHUNK
    IN  IF lp < fp THEN [fp |-> lp, lp |-> fp] ELSE [fp |-> fp, lp |-> lp]

\* Mutant of extract_text_from_pdf: the direct path is never taken.
extract_text_ocr_only(doc, is_ocr_needed, res) ==
    [path |-> "ocr", result |-> IF doc.file_size = 0 THEN "raise" ELSE res]

extract_text_from_pdf(doc, is_ocr_needed, res) ==
    IF ~is_ocr_needed /\ doc.parse = "ok" /\ ~doc.blank
    THEN [path |-> "direct", result |-> "text"]
    ELSE [path |-> "ocr",
          result |-> IF doc.file_size = 0 THEN "raise" ELSE res]

(***************************************************************************)
(* telegram_webhook, a text message (lines 726-830).                       *)
(***************************************************************************)
OnText(s, chat, text, t) ==
    IF s.awaiting_comment[chat] # None
    THEN LET conv == s.awaiting_comment[chat][1]
         IN  Emits([s EXCEPT !.awaiting_comment[chat] = None,
                             !.feedback = save_feedback(@, chat, conv, None,
                                                        Some(text))],
                   <<log_event(chat, "feedback_comment"),
                     send_message(chat, "comment_saved")>>)
    ELSE IF text = "/start"
    THEN Emits([s EXCEPT !.user_states =
                    set_user_waiting_for_file(@, chat, FALSE, t)],
               <<log_event(chat, "start"), send_message(chat, "welcome")>>)
    ELSE IF text = "/stop"
    THEN Emits([s EXCEPT !.user_states =
                    set_user_waiting_for_file(@, chat, FALSE, t)],
               <<send_message(chat, "stopped")>>)
    ELSE IF text = "/statistic"
    THEN IF chat = ADMIN_CHAT_ID
         THEN Emits(s, <<send_message(chat, "building_stats"),
                         Effect("send_binary_document", chat, "stats.xlsx",
                                0, 0, 0, <<>>)>>)
         ELSE Emits(s, <<send_message(chat, "no_rights")>>)
    ELSE IF text = "/stats"
    THEN IF chat = ADMIN_CHAT_ID
         THEN Emits(s, <<send_message(chat, "stats")>>)
         ELSE Emits(s, <<send_message(chat, "no_rights")>>)
    ELSE IF text = UPLOAD_TEXT
    THEN Emits([s EXCEPT !.user_states =
                    set_user_waiting_for_file(@, chat, TRUE, t)],
               <<log_event(chat, "request_upload"),
                 send_message(chat, "send_pdf_now")>>)
    ELSE IF text = INFO_TEXT
    THEN Emits(s, <<send_message(chat, "description")>>)
    ELSE IF handle_file_questions(text)
    THEN Emits(s, <<send_message(chat, "file_info")>>)
    ELSE LET waiting == is_user_waiting_for_file(s.user_states, chat, t)
             s1 == [s EXCEPT !.user_states = user_states_checked(@, chat, t)]
         IN  IF ~waiting
             THEN Emits(s1, <<send_message(chat, "only_pdf_guidance")>>)
             ELSE Emits(s1, <<send_message(chat, "waiting_for_pdf")>>)

(***************************************************************************)
(* telegram_webhook, a document message (lines 831-981).                   *)
(***************************************************************************)
\* The except branch of lines 976-981.
OnPdfException(s, chat, t) ==
    Emits([s EXCEPT !.user_states =
               set_user_waiting_for_file(@, chat, FALSE, t)],
          <<send_message(chat, "error_try_again"),
            log_event(chat, "ocr_error"),
            log_error(chat, "OCR_EXCEPTION")>>)

\* Mutant of needs_choice: the threshold is two chunks.
needs_choice_late(is_ocr_needed, num_pages) ==
    is_ocr_needed /\ num_pages > 2 * CHUNK

\* Line 917: a scan too long to recognize in one call.
needs_choice(is_ocr_needed, num_pages) == is_ocr_needed /\ num_pages > CHUNK

\* Lines 893-974: the bytes are downloaded.
OnPdfBytes(s, chat, message_id, doc, t, res) ==
    LET file == FileOf(chat, message_id)
        is_ocr_needed == doc.parse # "ok" \/ doc.blank
        num_pages == IF doc.parse = "fail" THEN 0 ELSE doc.pages
        analysed ==
            Emits(s, <<IF doc.parse # "ok" THEN log_error(chat, "ANALYZE_PDF")
                       ELSE IF is_ocr_needed THEN log_event(chat, "is_ocr")
                       ELSE log_event(chat, "is_text_pdf")>>)
    IN  IF needs_choice(is_ocr_needed, num_pages)
        THEN Emits([analysed EXCEPT
                       !.pending_files[chat] =
                           Some([file |-> file, doc |-> doc,
                                 num_pages |-> num_pages, created_at |-> t]),
                       !.issued[chat] =
                           @ \cup Range(build_split_options_keyboard)],
                   <<send_keyboard(chat, "large_scan_choice",
                                   build_split_options_keyboard)>>)
        ELSE LET told == IF is_ocr_needed
                         THEN Emits(analysed,
                                    <<send_message(chat, "scan_detected")>>)
                         ELSE analysed
                 ex == extract_text_from_pdf(doc, is_ocr_needed, res)
                 call == IF ex.path = "direct"
                         THEN extract_call(chat, ex, file, 0, 0)
                         ELSE extract_call(chat, ex, file,
                                           page_range(None, None).fp,
                                           page_range(None, None).lp)
                 called == Emits(told, <<call>>)
                 conv == conversion_id(message_id, t)
             IN  IF ex.result = "raise" THEN OnPdfException(called, chat, t)
                 ELSE IF ex.result = "blank"
                 THEN Emits(called,
                            <<send_message(chat, "no_text_extracted"),
                              log_event(chat, "ocr_error"),
                              log_error(chat, "OCR_EMPTY")>>)
                 ELSE Emits([called EXCEPT
                                !.user_states =
                                    set_user_waiting_for_file(@, chat, FALSE, t),
                                !.issued[chat] =
                                    @ \cup Range(build_rating_keyboard(conv))],
                            <<send_document(chat, "result.txt", file, 0, 0),
                              log_event(chat, "ocr_success"),
                              send_keyboard(chat, "rate_quality",
                                            build_rating_keyboard(conv)),
                              send_message(chat, "done")>>)

\* Mutant of is_pdf: the declared media type is not looked at.
is_pdf_unchecked(doc) == TRUE

\* Line 842: the declared media type of the document.
is_pdf(doc) == doc.mime = PDF

\* Lines 831-981: a message with a document.
OnDocument(s0, chat, message_id, doc, t, fetch, res) ==
    LET waiting == is_user_waiting_for_file(s0.user_states, chat, t)
        s == [s0 EXCEPT !.user_states = user_states_checked(@, chat, t)]
        file == FileOf(chat, message_id)
    IN  IF ~waiting
        THEN Emits(s, <<send_message(chat, "press_button_first")>>)
        ELSE IF ~is_pdf(doc)
        THEN Emits(s, <<send_message(chat, "only_pdf_accepted")>>)
        ELSE IF doc.file_size > 50 * MB
        THEN Emits(s, <<send_message(chat, "file_too_big")>>)
        ELSE IF doc.file_size > 20 * MB
        THEN Emits(s, <<send_message(chat, "over_20_mb")>>)
        ELSE LET accepted ==
                     Emits(s, (IF doc.file_size > 10 * MB
                               THEN <<send_message(chat, "big_file_warning")>>
                               ELSE <<>>)
                              \o <<send_message(chat, "accepted"),
                                   log_event(chat, "file_received")>>)
             IN  IF fetch = "exception"
                 THEN OnPdfException(accepted, chat, t)
                 ELSE IF fetch = "getFile_not_ok"
                 THEN Emits(accepted,
                            <<send_message(chat, "getfile_error"),
                              log_event(chat, "ocr_error"),
                              log_error(chat, "GET_FILE")>>)
                 ELSE IF fetch = "download_not_ok"
                 THEN Emits(accepted,
                            <<download(chat, file),
                              send_message(chat, "download_error"),
                              log_event(chat, "ocr_error"),
                              log_error(chat, "DOWNLOAD_FILE")>>)
                 ELSE OnPdfBytes(Emits(accepted, <<download(chat, file)>>),
                                 chat, message_id, doc, t, res)

(***************************************************************************)
(* telegram_webhook, a button press (lines 582-706).                       *)
(***************************************************************************)
MaxChunks == (MaxPages + CHUNK - 1) \div CHUNK

\* Mutant of chunk_end: the last chunk is not clamped to the page count.
chunk_end_unclamped(start, total_pages) == start + 9

\* Line 677: the last page of the chunk that starts at page start.
chunk_end(start, total_pages) == Min(start + 9, total_pages)

\* Mutant of SplitLoop: a chunk whose extraction raises ends the loop.
RECURSIVE SplitLoopAbort(_, _, _, _, _, _)
SplitLoopAbort(s, chat, pending, start, part_index, rs) ==
    IF start > pending.num_pages THEN s
    ELSE LET end == chunk_end(start, pending.num_pages)
             ex == extract_text_from_pdf(pending.doc, TRUE, rs[part_index])
             head == <<Effect("send_message", chat, "processing_pages", 0,
                              start, end, <<>>),
                       extract_call(chat, ex, pending.file, start, end)>>
         IN  IF ex.result = "raise"
             THEN Emits(s, head \o <<Effect("send_message", chat,
                                            "chunk_error", 0, start, end,
                                            <<>>)>>)
             ELSE SplitLoopAbort(
                      Emits(s, head \o
                               IF ex.result = "blank"
                               THEN <<Effect("send_message", chat,
                                             "chunk_no_text", 0, start, end,
                                             <<>>)>>
                               ELSE <<send_document(chat, "part.txt",
                                                    pending.file, start, end),
                                      Effect("send_message", chat,
                                             "chunk_done", 0, start, end,
                                             <<>>)>>),
                      chat, pending, start + 10, part_index + 1, rs)

\* for start in range(1, total_pages + 1, 10), lines 676-698; rs[k] is how
\* the k-th extraction call ends.
RECURSIVE SplitLoop(_, _, _, _, _, _)
SplitLoop(s, chat, pending, start, part_index, rs) ==
    IF start > pending.num_pages THEN s
    ELSE LET end == chunk_end(start, pending.num_pages)
             ex == extract_text_from_pdf(pending.doc, TRUE, rs[part_index])
             after ==
                 IF ex.result = "raise"
                 THEN <<Effect("send_message", chat, "chunk_error", 0,
                               start, end, <<>>)>>
                 ELSE IF ex.result = "blank"
                 THEN <<Effect("send_message", chat, "chunk_no_text", 0,
                               start, end, <<>>)>>
                 ELSE <<send_document(chat, "part.txt", pending.file,
                                      start, end),
                        Effect("send_message", chat, "chunk_done", 0,
                               start, end, <<>>)>>
         IN  SplitLoop(Emits(s, <<Effect("send_message", chat,
                                         "processing_pages", 0, start, end,
                                         <<>>),
                                  extract_call(chat, ex, pending.file,
                                               start, end)>> \o after),
                       chat, pending, start + 10, part_index + 1, rs)

OnRate(s, chat, action) ==
    LET p == parse_rate(action)
    IN  IF ~p.ok
        THEN Emits(s, <<send_message(chat, "rating_not_saved")>>)
        ELSE IF get_feedback(s.feedback, chat, p.conv_id)
        THEN Emits(s, <<send_message(chat, "feedback_already_saved")>>)
        ELSE IF 1 <= p.rating /\ p.rating <= 5
        THEN Emits([s EXCEPT !.feedback =
                        save_feedback(@, chat, p.conv_id, Some(p.rating),
                                      None)],
                   <<log_event(chat, "feedback"),
                     send_message(chat, "thanks_for_rating")>>)
        ELSE Emits(s, <<send_message(chat, "invalid_rating")>>)

OnCommentRequest(s, chat, action) ==
    LET conv_id == parse_comment(action)
    IN  IF get_feedback(s.feedback, chat, conv_id)
        THEN Emits(s, <<send_message(chat, "comment_already_saved")>>)
        ELSE Emits([s EXCEPT !.awaiting_comment[chat] = Some(conv_id)],
                   <<send_message(chat, "write_comment")>>)

\* Mutant of OnFirst10: blank text is delivered like any other text.
OnFirst10BlankSent(s, chat, pending, t, res) ==
    LET last == Min(10, pending.num_pages)
        ex == extract_text_from_pdf(pending.doc, TRUE, res)
        after ==
            IF ex.result = "raise"
            THEN <<send_message(chat, "first10_error")>>
            ELSE <<send_document(chat, "first10.txt", pending.file, 1, last),
                   send_message(chat, "first10_done")>>
    IN  Emits([s EXCEPT !.user_states =
                   set_user_waiting_for_file(@, chat, FALSE, t)],
              <<send_message(chat, "first10_start"),
                extract_call(chat, ex, pending.file, 1, last)>>
              \o after)

OnFirst10(s, chat, pending, t, res) ==
    LET last == Min(10, pending.num_pages)
        ex == extract_text_from_pdf(pending.doc, TRUE, res)
        after ==
            IF ex.result = "raise"
            THEN <<send_message(chat, "first10_error")>>
            ELSE IF ex.result = "blank"
            THEN <<send_message(chat, "first10_no_text")>>
            ELSE <<send_document(chat, "first10.txt", pending.file, 1, last),
                   send_message(chat, "first10_done")>>
    IN  Emits([s EXCEPT !.user_states =
                   set_user_waiting_for_file(@, chat, FALSE, t)],
              <<send_message(chat, "first10_start"),
                extract_call(chat, ex, pending.file, 1, last)>>
              \o after)

OnSplit(s, chat, pending, t, rs) ==
    LET looped == SplitLoop(Emits(s, <<send_message(chat, "split_start")>>),
                            chat, pending, 1, 1, rs)
    IN  Emits([looped EXCEPT
                  !.pending_files[chat] = None,
                  !.user_states =
                      set_user_waiting_for_file(@, chat, FALSE, t)],
              <<send_message(chat, "all_parts_done")>>)

OnCallback(s0, chat, callback_id, action, t, rs) ==
    LET s == Emits([s0 EXCEPT !.processed_callback_ids =
                                  @ \cup {callback_id}],
                   <<answer_callback_query(chat)>>)
    IN  IF StartsWith(action, RATE_PREFIX) THEN OnRate(s, chat, action)
        ELSE IF StartsWith(action, FB_COMMENT_PREFIX)
        THEN OnCommentRequest(s, chat, action)
        ELSE IF s.pending_files[chat] = None
        THEN Emits(s, <<send_message(chat, "no_file_found")>>)
        ELSE IF action = OCR_FIRST_10
        THEN OnFirst10(s, chat, s.pending_files[chat][1], t, rs[1])
        ELSE IF action = SPLIT_PDF
        THEN OnSplit(s, chat, s.pending_files[chat][1], t, rs)
        ELSE Emits(s, <<send_message(chat, "unknown_action")>>)

\* A press whose id is on record is a re-delivery (line 592).  A variant that
\* looks the id up among the message fingerprints as well is kept for
\* comparison.
is_callback_processed_shared(s, callback_id) ==
    callback_id \in s.processed_callback_ids \cup s.processed_messages

is_callback_processed(s, callback_id) ==
    callback_id \in s.processed_callback_ids

\* Payloads the handler answers without doing anything: an empty body
\* (line 577), a body request.get_json cannot read (line 574 raises), an
\* update that is neither a message nor a button press (line 708).
NoUpdate == {"empty", "malformed", "no_message"}

(***************************************************************************)
(* telegram_webhook (lines 571-988): the store after event e is handled at *)
(* time t.  fetch is how the file lookup and download end, rs how the      *)
(* recognition calls of this event end.                                    *)
(***************************************************************************)
telegram_webhook(s, e, t, fetch, rs) ==
    IF e.kind \in NoUpdate THEN s
    ELSE IF e.kind = "callback"
    THEN IF is_callback_processed(s, e.id) THEN s
         ELSE OnCallback(s, e.chat, e.id, e.data, t, rs)
    ELSE LET h == get_message_hash(e.id, e.date)
         IN  IF is_message_processed(s.processed_messages, h) THEN s
             ELSE LET s1 == [s EXCEPT !.processed_messages =
                                          mark_message_processed(@, h)]
                  IN  IF e.kind = "text"
                      THEN OnText(s1, e.chat, e.text, t)
                      ELSE IF e.kind = "document"
                      THEN OnDocument(s1, e.chat, e.id, e.doc, t, fetch,
                                      rs[1])
                      ELSE s1

(***************************************************************************)
(* The environment.  A world names the inbound events and the outcomes of  *)
(* the external calls that a specification explores: the chats that write, *)
(* the texts and documents they send, how the file download and the        *)
(* recognition calls end, and how many hashes the seen set holds at the    *)
(* start.                                                                  *)
(***************************************************************************)
World(chats, texts, docs, fetches, outcomes, priors) ==
    [chats |-> chats, texts |-> texts, docs |-> docs, fetches |-> fetches,
     outcomes |-> outcomes, priors |-> priors, sends |-> {"ok"}]

TextPdf == DocShape(PDF, 1000, "ok", FALSE, 3)
SmallScan == DocShape(PDF, 1000, "ok", TRUE, 3)
LargeScan(pages) == DocShape(PDF, 1000, "ok", TRUE, pages)

NoResults == [k \in 1 .. MaxChunks |-> "text"]

\* How the recognition calls of a button press end: one outcome per chunk
\* for the split, one outcome for the first-10 choice.
ResultsFor(W, data) ==
    IF data = SPLIT_PDF THEN [1 .. MaxChunks -> W.outcomes]
    ELSE IF data = OCR_FIRST_10
    THEN { [k \in 1 .. MaxChunks |-> res] : res \in W.outcomes }
    ELSE {NoResults}

(***************************************************************************)
(* Outbound transport.  A call of send_message, send_document or           *)
(* answer_callback_query posts to the Bot API; the post ends with an ok    *)
(* response, a response that is not ok, a timeout, or another exception.   *)
(* net says from which step of the handler's trace on the posts end badly, *)
(* and how.                                                                *)
(***************************************************************************)
SendOutcomes == {"ok", "not_ok", "timeout", "error"}

OutboundOps == {"send_message", "send_document", "answer_callback_query"}

NetUp == [from |-> 0, outcome |-> "ok"]

Nets(W, trace) ==
    {NetUp} \cup
    { [from |-> k, outcome |-> o] :
        k \in { i \in 1 .. Len(trace) : trace[i].op \in OutboundOps },
        o \in W.sends \ {"ok"} }

\* Mutant of send_ends: timeouts and other exceptions of the post escape.
send_ends_uncaught(op, outcome) ==
    IF outcome \in {"timeout", "error"} THEN "raises" ELSE "returns"

\* How a send function ends (lines 248-264, 266-281, 382-393): a response
\* that is not ok is logged, a timeout and any other exception are caught
\* and logged; the function returns in every case.
send_ends(op, outcome) ==
    CASE outcome \in {"ok", "not_ok"} -> "returns"
      [] outcome = "timeout" -> "returns"
      [] OTHER -> "returns"

\* The steps of the trace that run under net n: a step is skipped when a
\* send before it has raised.
Executed(trace, n) ==
    LET raising == { i \in 1 .. Len(trace) :
                       /\ n.from # 0
                       /\ i >= n.from
                       /\ trace[i].op \in OutboundOps
                       /\ send_ends(trace[i].op, n.outcome) = "raises" }
    IN  IF raising = {} THEN [trace |-> trace, raised |-> FALSE]
        ELSE [trace |-> SubSeq(trace, 1,
                               CHOOSE i \in raising :
                                   \A j \in raising : i <= j),
              raised |-> TRUE]

\* Lines 573-988: the body runs inside try; except Exception returns
\* "OK", 200, and so does every return of the body.
webhook_response(body_raised) == IF body_raised THEN "OK/200" ELSE "OK/200"

(***************************************************************************)
(* Actions.  A new message of a chat carries the chat's next message id    *)
(* and the current time as its date; a new button press carries the next   *)
(* callback id.  The transport may deliver again the event it delivered    *)
(* last (at-least-once delivery).                                          *)
(***************************************************************************)
\* The choice prompts in the chat after a handler ran: the prompt sent for
\* a parked scan (lines 925-929) stays on display, with its buttons, next
\* to the earlier ones; it is known by the file it was sent for.
prompts_shown(shown, e, trace) ==
    IF \E x \in Range(trace) : x.text = "large_scan_choice"
    THEN [shown EXCEPT ![e.chat] = @ \cup {FileOf(e.chat, e.id)}]
    ELSE shown

Handle(W, e, fetch, rs) ==
    LET r == telegram_webhook(Store, e, now, fetch, rs)
    IN  /\ \E n \in Nets(W, r.out) :
               /\ net' = n
               /\ out' = Executed(r.out, n).trace
               /\ response' =
                      webhook_response(e.kind = "malformed"
                                           \/ Executed(r.out, n).raised)
        /\ processed_messages' = r.processed_messages
        /\ processed_callback_ids' = r.processed_callback_ids
        /\ user_states' = r.user_states
        /\ pending_files' = r.pending_files
        /\ awaiting_comment' = r.awaiting_comment
        /\ feedback' = r.feedback
        /\ issued' = r.issued
        /\ prompts' = prompts_shown(prompts, e, r.out)
        /\ ev' = e
        /\ UNCHANGED <<now, ticks, ocr, norm, threads>>

Events == cb_count + msg_count[1] + msg_count[2]

NewMessage(chat) ==
    /\ Events < MaxEvents
    /\ msg_count' = [msg_count EXCEPT ![chat] = @ + 1]
    /\ UNCHANGED cb_count

\* A text message arrives.
WebhookText(W) ==
    \E chat \in W.chats, text \in W.texts :
        /\ NewMessage(chat)
        /\ Handle(W, Event("text", chat, msg_count[chat] + 1, now, text, NoDoc,
                           <<>>), "ok", NoResults)

\* A message with a document arrives.
WebhookDocument(W) ==
    \E chat \in W.chats, doc \in W.docs, fetch \in W.fetches,
       res \in W.outcomes :
        /\ NewMessage(chat)
        /\ Handle(W, Event("document", chat, msg_count[chat] + 1, now, "", doc,
                           <<>>), fetch, [k \in 1 .. MaxChunks |-> res])

\* A message with neither text nor document (a photo, a sticker) arrives.
WebhookOther(W) ==
    \E chat \in W.chats :
        /\ NewMessage(chat)
        /\ Handle(W, Event("other", chat, msg_count[chat] + 1, now, "", NoDoc,
                           <<>>), "ok", NoResults)

\* The ratings the modelled requesters press (all five buttons are sent).
RatingsPressed == {2, 5}

Pressable(chat) ==
    { d \in issued[chat] :
        StartsWith(d, RATE_PREFIX)
            => \E r \in RatingsPressed : StartsWith(d, RATE_PREFIX \o Str(r)) }

\* The id of the n-th press (line 584).  Press ids are opaque strings chosen
\* by the sender; here the n-th press gets the very string that is the
\* fingerprint of message n sent at time 0, so that the ids of presses and
\* the fingerprints of messages coincide wherever they can.
press_id(n) == get_message_hash(n, 0)

\* A button of a keyboard the bot has sent to the chat is pressed.
WebhookCallback(W) ==
    \E chat \in W.chats :
        \E data \in Pressable(chat) :
            \E rs \in ResultsFor(W, data) :
                /\ Events < MaxEvents
                /\ cb_count' = cb_count + 1
                /\ UNCHANGED msg_count
                /\ Handle(W, Event("callback", chat, press_id(cb_count + 1), 0,
                                   "", NoDoc, data), "ok", rs)

\* The event delivered last is delivered again.
Redeliver(W) ==
    /\ ev.kind \in {"text", "document", "other", "callback"}
    /\ \E fetch \in W.fetches, rs \in ResultsFor(W, ev.data) :
           Handle(W, ev, fetch, rs)
    /\ UNCHANGED <<msg_count, cb_count>>

\* Time passes between two events.
Tick ==
    /\ ticks < MaxTicks
    /\ \E d \in {1, WAIT_TTL} : now' = now + d
    /\ ticks' = ticks + 1
    /\ ev' = TickEvent
    /\ out' = <<>>
    /\ UNCHANGED <<processed_messages, processed_callback_ids, user_states,
                   pending_files, awaiting_comment, feedback, issued,
                   msg_count, cb_count, ocr, net, response, norm, threads,
                   prompts>>

\* The request threads of the modelled server (app.run serves every request
\* in a thread of its own); two are enough for a race.
Workers == {1, 2}

ThreadIdle == [pc |-> "idle", e |-> NoEvent]

NormIdle == [pc |-> "idle", x |-> <<>>, y |-> <<>>, z |-> <<>>]

OcrIdle ==
    [pc |-> "idle", page |-> <<>>, st |-> <<>>, how |-> <<>>, got |-> <<>>,
     calls |-> <<>>, img |-> <<>>, ocr_text |-> <<>>, result |-> <<>>]

InitIn(W) ==
    /\ processed_messages \in { PriorHashes(n) : n \in W.priors }
    /\ processed_callback_ids = {}
    /\ user_states = [c \in Chats |-> None]
    /\ pending_files = [c \in Chats |-> None]
    /\ awaiting_comment = [c \in Chats |-> None]
    /\ feedback = {}
    /\ now = 0
    /\ ticks = 0
    /\ msg_count = [c \in Chats |-> 0]
    /\ cb_count = 0
    /\ issued = [c \in Chats |-> {}]
    /\ ev = NoEvent
    /\ out = <<>>
    /\ ocr = OcrIdle
    /\ net = NetUp
    /\ response = ""
    /\ norm = NormIdle
    /\ threads = [i \in Workers |-> ThreadIdle]
    /\ prompts = [c \in Chats |-> {}]

(***************************************************************************)
(* Spec: one requester; upload intents and free text, a text PDF and scans *)
(* of several lengths, every outcome of the recognition calls.             *)
(***************************************************************************)
MainWorld ==
    World({1}, {UPLOAD_TEXT, "hello"},
          {TextPdf, LargeScan(CHUNK + 1), LargeScan(2 * CHUNK),
           LargeScan(MaxPages)},
          {"ok", "download_not_ok"}, Outcomes, {0})

Init == InitIn(MainWorld)

Next ==
    \/ WebhookText(MainWorld)
    \/ WebhookDocument(MainWorld)
    \/ WebhookCallback(MainWorld)
    \/ Redeliver(MainWorld)

Spec == Init /\ [][Next]_vars

(***************************************************************************)
(* SpecTimed: one requester, the clock advances between events; upload     *)
(* intent and /start, a text PDF and a large scan.                         *)
(***************************************************************************)
TimedWorld ==
    World({1}, {UPLOAD_TEXT, "/start"}, {TextPdf, LargeScan(CHUNK + 1)},
          {"ok"}, {"text"}, {0})

InitTimed == InitIn(TimedWorld)

NextTimed ==
    \/ WebhookText(TimedWorld)
    \/ WebhookDocument(TimedWorld)
    \/ Tick

SpecTimed == InitTimed /\ [][NextTimed]_vars

(***************************************************************************)
(* SpecDedup: one requester; the seen set starts empty or holding          *)
(* CACHE_LIMIT hashes of earlier messages.                                 *)
(***************************************************************************)
DedupWorld ==
    World({1}, {UPLOAD_TEXT, "hello"}, {TextPdf}, {"ok"}, {"text"},
          {0, CACHE_LIMIT})

InitDedup == InitIn(DedupWorld)

NextDedup ==
    \/ WebhookText(DedupWorld)
    \/ WebhookDocument(DedupWorld)
    \/ WebhookOther(DedupWorld)
    \/ WebhookCallback(DedupWorld)
    \/ Redeliver(DedupWorld)

SpecDedup == InitDedup /\ [][NextDedup]_vars

(***************************************************************************)
(* clean_text (lines 404-412) on sequences of characters.  "a" and "b"     *)
(* stand for the letters of the first pattern; "\r" stands for the line    *)
(* breaks other than "\n" that str.splitlines splits on.                   *)
(***************************************************************************)
Letters == {"a", "b"}
LineBreaks == {"\n", "\r"}
Whitespace == {" ", "\t", "\n", "\r"}
TextChars == Letters \cup {"-"} \cup Whitespace

\* Line 408: re.sub(r'([letter])-\n([letter])', r'\1\2', text); matches are
\* taken from left to right and do not overlap.
RECURSIVE JoinHyphens(_)
JoinHyphens(s) ==
    IF s = <<>> THEN <<>>
    ELSE IF /\ Len(s) >= 4
            /\ s[1] \in Letters
            /\ s[2] = "-"
            /\ s[3] = "\n"
            /\ s[4] \in Letters
    THEN <<s[1], s[4]>> \o JoinHyphens(SubSeq(s, 5, Len(s)))
    ELSE <<s[1]>> \o JoinHyphens(Tail(s))

\* Line 409: re.sub(r'(?<!\n)\n(?!\n)', ' ', text).
SingleNewlines(s) ==
    [i \in 1 .. Len(s) |->
        IF /\ s[i] = "\n"
           /\ (i = 1 \/ s[i - 1] # "\n")
           /\ (i = Len(s) \/ s[i + 1] # "\n")
        THEN " " ELSE s[i]]

\* Line 410: re.sub(r' +', ' ', text).
RECURSIVE CollapseSpaces(_)
CollapseSpaces(s) ==
    IF Len(s) < 2 THEN s
    ELSE IF s[1] = " " /\ s[2] = " " THEN CollapseSpaces(Tail(s))
    ELSE <<s[1]>> \o CollapseSpaces(Tail(s))

\* str.splitlines: "\r\n" is one line break; a line break at the end of
\* the text opens no further line.
RECURSIVE SplitLinesFrom(_, _, _)
SplitLinesFrom(s, i, cur) ==
    IF i > Len(s) THEN (IF cur = <<>> THEN <<>> ELSE <<cur>>)
    ELSE IF s[i] = "\r" /\ i < Len(s) /\ s[i + 1] = "\n"
    THEN <<cur>> \o SplitLinesFrom(s, i + 2, <<>>)
    ELSE IF s[i] \in LineBreaks
    THEN <<cur>> \o SplitLinesFrom(s, i + 1, <<>>)
    ELSE SplitLinesFrom(s, i + 1, Append(cur, s[i]))

SplitLines(s) == SplitLinesFrom(s, 1, <<>>)

\* str.strip.
RECURSIVE LStrip(_)
LStrip(s) ==
    IF s # <<>> /\ s[1] \in Whitespace THEN LStrip(Tail(s)) ELSE s

RECURSIVE RStrip(_)
RStrip(s) ==
    IF s # <<>> /\ s[Len(s)] \in Whitespace
    THEN RStrip(SubSeq(s, 1, Len(s) - 1)) ELSE s

Strip(s) == RStrip(LStrip(s))

\* '\n'.join(lines).
RECURSIVE JoinLines(_)
JoinLines(lines) ==
    IF lines = <<>> THEN <<>>
    ELSE IF Len(lines) = 1 THEN lines[1]
    ELSE lines[1] \o <<"\n">> \o JoinLines(Tail(lines))

clean_text(text) ==
    IF text = <<>> THEN <<>>
    ELSE LET spaced == CollapseSpaces(SingleNewlines(JoinHyphens(text)))
             lines == SplitLines(spaced)
         IN  Strip(JoinLines([k \in 1 .. Len(lines) |-> Strip(lines[k])]))

(***************************************************************************)
(* SpecOcr: the recognition path of extract_text_from_pdf (lines 524-564)  *)
(* for one call.  Rasterization returns the page images; every page is     *)
(* submitted to a pool of min(4, pages) workers; ocr_single returns the    *)
(* page's text, or "" when preprocessing or recognition raises; the main   *)
(* thread takes the futures from as_completed and appends text + "\n" to   *)
(* ocr_text.  Page i of the model is the task submitted with index i - 1.  *)
(***************************************************************************)
PageTexts == {<<"a">>, <<"b">>}

Running(o) == { i \in 1 .. Len(o.st) : o.st[i] = "running" }

\* convert_from_bytes returns the images of the pages; the futures are
\* submitted (lines 524, 554-555).  ThreadPoolExecutor(max_workers=0)
\* raises when there is no image.
OcrSubmit ==
    /\ ocr.pc = "idle"
    /\ \E n \in 0 .. MaxOcrPages :
           \E texts \in [1 .. n -> PageTexts] :
               ocr' = [pc |-> IF n = 0 THEN "raised" ELSE "pool",
                       page |-> texts,
                       st |-> [i \in 1 .. n |-> "queued"],
                       how |-> [i \in 1 .. n |-> ""],
                       got |-> [i \in 1 .. n |-> <<>>],
                       calls |-> [i \in 1 .. n |-> <<>>],
                       img |-> [i \in 1 .. n |-> ""],
                       ocr_text |-> <<>>,
                       result |-> <<>>]

\* A free worker takes the next queued task (the pool's queue is FIFO).
OcrStart ==
    /\ ocr.pc = "pool"
    /\ Cardinality(Running(ocr)) < Min(MAX_WORKERS, Len(ocr.st))
    /\ \E i \in 1 .. Len(ocr.st) :
           /\ ocr.st[i] = "queued"
           /\ \A j \in 1 .. i - 1 : ocr.st[j] # "queued"
           /\ ocr' = [ocr EXCEPT !.st[i] = "running"]

\* How the work on one page goes: a step of preprocess_image_for_ocr other
\* than the deskew raises (lines 450-467 catch nothing); the deskew fails
\* and deskew_image returns the image it was given (lines 428-448); the
\* recognition call raises; or nothing fails.
PageOutcomes ==
    {"preprocess_raises", "deskew_fails", "recognition_raises", "ok"}

\* The image that reaches recognition after preprocessing went as `how`.
preprocess_image_for_ocr(how) ==
    IF how = "preprocess_raises" THEN "none"
    ELSE IF how = "deskew_fails" THEN "binarized"
    ELSE "binarized_deskewed"

\* The recognition configuration of line 545: page segmentation mode 4 with
\* the character whitelist.
WHITELIST == "whitelist"

\* ocr_single without its try/except, kept for comparison: an exception
\* leaves the task.
ocr_single_uncaught(page_text, how) ==
    [text |-> IF how \in {"ok", "deskew_fails"} THEN page_text ELSE <<>>,
     calls |-> IF how = "preprocess_raises" THEN <<>> ELSE <<WHITELIST>>,
     img |-> preprocess_image_for_ocr(how),
     raised |-> how \in {"preprocess_raises", "recognition_raises"}]

\* ocr_single (lines 530-552).  One try block holds the downscaling, the
\* preprocessing and the single image_to_string call with the whitelist
\* configuration; any exception in it gives text = "".  calls are the
\* recognition calls made, img the image handed to recognition.
ocr_single(page_text, how) ==
    [text |-> IF how \in {"ok", "deskew_fails"} THEN page_text ELSE <<>>,
     calls |-> IF how = "preprocess_raises" THEN <<>> ELSE <<WHITELIST>>,
     img |-> preprocess_image_for_ocr(how),
     raised |-> FALSE]

\* A running task ends.
OcrFinish ==
    /\ ocr.pc = "pool"
    /\ \E i \in Running(ocr), how \in PageOutcomes :
           LET r == ocr_single(ocr.page[i], how)
           IN  ocr' = [ocr EXCEPT !.st[i] = IF r.raised THEN "raised"
                                           ELSE "finished",
                                  !.how[i] = how,
                                  !.got[i] = r.text,
                                  !.calls[i] = r.calls,
                                  !.img[i] = r.img]

\* One turn of the as_completed loop (lines 556-562): a future that is done
\* and has not been taken yet is taken; fut.result() raises what the task
\* raised, and the exception leaves extract_text_from_pdf (lines 566-568).
OcrCollect ==
    /\ ocr.pc = "pool"
    /\ \E i \in 1 .. Len(ocr.st) :
           /\ ocr.st[i] \in {"finished", "raised"}
           /\ ocr' = IF ocr.st[i] = "raised"
                     THEN [ocr EXCEPT !.st[i] = "collected", !.pc = "raised"]
                     ELSE [ocr EXCEPT !.st[i] = "collected",
                                      !.ocr_text = @ \o ocr.got[i] \o <<"\n">>]

\* All futures are taken: clean_text(ocr_text) is returned (line 564).
OcrReturn ==
    /\ ocr.pc = "pool"
    /\ \A i \in 1 .. Len(ocr.st) : ocr.st[i] = "collected"
    /\ ocr' = [ocr EXCEPT !.pc = "done", !.result = clean_text(ocr.ocr_text)]

OcrVars ==
    <<processed_messages, processed_callback_ids, user_states, pending_files,
      awaiting_comment, feedback, now, ticks, msg_count, cb_count, issued,
      ev, out, net, response, norm, threads, prompts>>

InitOcr == InitIn(MainWorld)

NextOcr ==
    \/ OcrSubmit /\ UNCHANGED OcrVars
    \/ OcrStart /\ UNCHANGED OcrVars
    \/ OcrFinish /\ UNCHANGED OcrVars
    \/ OcrCollect /\ UNCHANGED OcrVars
    \/ OcrReturn /\ UNCHANGED OcrVars

SpecOcr == InitOcr /\ [][NextOcr]_vars

(***************************************************************************)
(* SpecLedger: save_feedback (lines 128-146) called directly, any number   *)
(* of times, with every combination of a rating or none and a comment or   *)
(* none, for two requesters and two conversions.                           *)
(***************************************************************************)
LedgerConvs == {conversion_id(1, 0), conversion_id(2, 0)}
LedgerRatings == {None, Some(1), Some(5)}
LedgerComments == {None, Some("good"), Some("bad")}

\* One call of save_feedback.
SaveFeedback ==
    \E user \in Chats, conv \in LedgerConvs, rating \in LedgerRatings,
       comment \in LedgerComments :
        /\ feedback' = save_feedback(feedback, user, conv, rating, comment)
        /\ UNCHANGED <<processed_messages, processed_callback_ids,
                       user_states, pending_files, awaiting_comment, now,
                       ticks, msg_count, cb_count, issued, ev, out, ocr,
                       net, response, norm, threads, prompts>>

InitLedger == InitIn(MainWorld)

NextLedger == SaveFeedback

SpecLedger == InitLedger /\ [][NextLedger]_vars

(***************************************************************************)
(* SpecIntake: one requester; documents of every kind the intake tells     *)
(* apart (a text PDF, a short scan, a long scan, a PDF whose text          *)
(* extraction raises, bytes that are no PDF, an empty file, a file that is *)
(* not declared as PDF), every way the download ends and every outcome of  *)
(* the recognition calls.                                                  *)
(***************************************************************************)
TextFailPdf == DocShape(PDF, 1000, "text_fail", TRUE, CHUNK + 1)
BrokenPdf == DocShape(PDF, 1000, "fail", TRUE, 0)
EmptyPdf == DocShape(PDF, 0, "fail", TRUE, 0)
PngImage == DocShape("image/png", 1000, "fail", TRUE, 0)
EmptyFile == DocShape("application/octet-stream", 0, "fail", TRUE, 0)

IntakeWorld ==
    World({1}, {UPLOAD_TEXT},
          {TextPdf, SmallScan, LargeScan(CHUNK + 1), TextFailPdf, BrokenPdf,
           EmptyPdf, PngImage, EmptyFile},
          Fetches, Outcomes, {0})

InitIntake == InitIn(IntakeWorld)

NextIntake ==
    \/ WebhookText(IntakeWorld)
    \/ WebhookDocument(IntakeWorld)
    \/ WebhookCallback(IntakeWorld)

SpecIntake == InitIntake /\ [][NextIntake]_vars

(***************************************************************************)
(* SpecTransport: one requester; upload intents, a text PDF and a short    *)
(* scan, downloads and recognition calls that fail, payloads that are no   *)
(* update, re-deliveries, and outbound posts that end badly from any step  *)
(* of a handler on.                                                        *)
(***************************************************************************)
TransportWorld ==
    [World({1}, {UPLOAD_TEXT}, {TextPdf, SmallScan},
           {"ok", "download_not_ok", "exception"}, {"raise"}, {0})
        EXCEPT !.sends = SendOutcomes]

\* A payload that is no message and no button press arrives.
WebhookNoUpdate(W) ==
    \E kind \in NoUpdate :
        /\ UNCHANGED <<msg_count, cb_count>>
        /\ Handle(W, Event(kind, 0, 0, 0, "", NoDoc, <<>>), "ok", NoResults)

InitTransport == InitIn(TransportWorld)

NextTransport ==
    \/ WebhookText(TransportWorld)
    \/ WebhookDocument(TransportWorld)
    \/ WebhookCallback(TransportWorld)
    \/ WebhookNoUpdate(TransportWorld)
    \/ Redeliver(TransportWorld)

SpecTransport == InitTransport /\ [][NextTransport]_vars

(***************************************************************************)
(* SpecNormalize: clean_text applied to a text of at most MaxText          *)
(* characters, and applied again to its own result.                        *)
(***************************************************************************)
NormInputs == UNION { [1 .. n -> TextChars] : n \in 0 .. MaxText }

NormVars ==
    <<processed_messages, processed_callback_ids, user_states, pending_files,
      awaiting_comment, feedback, now, ticks, msg_count, cb_count, issued,
      ev, out, ocr, net, response, threads, prompts>>

\* A text reaches the normalizer.
NormInput ==
    /\ norm.pc = "idle"
    /\ \E x \in NormInputs : norm' = [norm EXCEPT !.pc = "input", !.x = x]
    /\ UNCHANGED NormVars

\* clean_text(x).
NormOnce ==
    /\ norm.pc = "input"
    /\ norm' = [norm EXCEPT !.pc = "once", !.y = clean_text(norm.x)]
    /\ UNCHANGED NormVars

\* clean_text(clean_text(x)).
NormTwice ==
    /\ norm.pc = "once"
    /\ norm' = [norm EXCEPT !.pc = "twice", !.z = clean_text(norm.y)]
    /\ UNCHANGED NormVars

InitNormalize == InitIn(MainWorld)

NextNormalize == NormInput \/ NormOnce \/ NormTwice

SpecNormalize == InitNormalize /\ [][NextNormalize]_vars

(***************************************************************************)
(* SpecPending: one requester; an upload intent, a long scan, the two      *)
(* choices, and the clock advancing between events.                        *)
(***************************************************************************)
PendingWorld ==
    World({1}, {UPLOAD_TEXT}, {LargeScan(CHUNK + 1)}, {"ok"}, {"text"}, {0})

InitPending == InitIn(PendingWorld)

NextPending ==
    \/ WebhookText(PendingWorld)
    \/ WebhookDocument(PendingWorld)
    \/ WebhookCallback(PendingWorld)
    \/ Tick

SpecPending == InitPending /\ [][NextPending]_vars

(***************************************************************************)
(* SpecThreads: two requests handled at the same time.  The server started *)
(* by app.run (line 1009) handles each request in its own thread, and the  *)
(* handler takes no lock; a thread can be suspended between any two of its *)
(* steps.  The steps modelled are the reads and writes of the shared       *)
(* collections: the seen check, the seen mark, the feedback lookup, the    *)
(* upsert.  What a message handler does after the mark is one step.        *)
(***************************************************************************)
RacedConversion == conversion_id(1, 0)

\* The events the two threads can be given: an upload intent, and two
\* presses of rating buttons of one conversion, with different press ids.
ThreadEvents ==
    { Event("text", 1, 1, 0, UPLOAD_TEXT, NoDoc, <<>>),
      Event("callback", 1, press_id(1), 0, "", NoDoc,
            rate_button(2, RacedConversion)),
      Event("callback", 1, press_id(2), 0, "", NoDoc,
            rate_button(5, RacedConversion)) }

\* The outcome r of a step on the store is written back; what the step sent
\* is appended to out.
WriteStore(r) ==
    /\ processed_messages' = r.processed_messages
    /\ processed_callback_ids' = r.processed_callback_ids
    /\ user_states' = r.user_states
    /\ pending_files' = r.pending_files
    /\ awaiting_comment' = r.awaiting_comment
    /\ feedback' = r.feedback
    /\ issued' = r.issued
    /\ out' = out \o r.out

ThreadVars ==
    <<now, ticks, msg_count, cb_count, ev, ocr, net, response, norm, prompts>>

\* A request arrives and is given to a free thread (lines 571-590, 708-715).
ThreadArrive(i) ==
    /\ threads[i].pc = "idle"
    /\ \E e \in ThreadEvents :
           threads' = [threads EXCEPT ![i] = [pc |-> "arrived", e |-> e]]
    /\ WriteStore(Store)
    /\ UNCHANGED ThreadVars

\* The seen check (line 592 for a press, line 717 for a message).
ThreadCheckSeen(i) ==
    LET e == threads[i].e
        seen == IF e.kind = "callback"
                THEN is_callback_processed(Store, e.id)
                ELSE is_message_processed(processed_messages,
                                          get_message_hash(e.id, e.date))
    IN  /\ threads[i].pc = "arrived"
        /\ threads' = [threads EXCEPT ![i].pc = IF seen THEN "dropped"
                                                ELSE "unseen"]
        /\ WriteStore(Store)
        /\ UNCHANGED ThreadVars

\* The seen mark (lines 596-598 for a press, line 722 for a message).
ThreadMarkSeen(i) ==
    LET e == threads[i].e
    IN  /\ threads[i].pc = "unseen"
        /\ threads' = [threads EXCEPT ![i].pc = "marked"]
        /\ WriteStore(
               IF e.kind = "callback"
               THEN Emits([Store EXCEPT !.processed_callback_ids =
                                            @ \cup {e.id}],
                          <<answer_callback_query(e.chat)>>)
               ELSE [Store EXCEPT !.processed_messages =
                         mark_message_processed(
                             @, get_message_hash(e.id, e.date))])
        /\ UNCHANGED ThreadVars

\* A message handler runs to its end (lines 726-830).
ThreadProcessText(i) ==
    LET e == threads[i].e
    IN  /\ threads[i].pc = "marked"
        /\ e.kind = "text"
        /\ threads' = [threads EXCEPT ![i].pc = "processed"]
        /\ WriteStore(OnText(Store, e.chat, e.text, now))
        /\ UNCHANGED ThreadVars

\* The rating branch looks the feedback up (lines 603-609).
ThreadGetFeedback(i) ==
    LET e == threads[i].e
        p == parse_rate(e.data)
        found == get_feedback(feedback, e.chat, p.conv_id)
    IN  /\ threads[i].pc = "marked"
        /\ e.kind = "callback"
        /\ threads' = [threads EXCEPT ![i].pc = IF found THEN "refused"
                                                ELSE "no_feedback"]
        /\ WriteStore(IF found
                      THEN Emits(Store, <<send_message(
                                              e.chat,
                                              "feedback_already_saved")>>)
                      ELSE Store)
        /\ UNCHANGED ThreadVars

\* The rating branch writes the rating (lines 610-613).
ThreadSaveFeedback(i) ==
    LET e == threads[i].e
        p == parse_rate(e.data)
    IN  /\ threads[i].pc = "no_feedback"
        /\ threads' = [threads EXCEPT ![i].pc = "processed"]
        /\ WriteStore(Emits([Store EXCEPT !.feedback =
                                 save_feedback(@, e.chat, p.conv_id,
                                               Some(p.rating), None)],
                            <<log_event(e.chat, "feedback"),
                              send_message(e.chat, "thanks_for_rating")>>))
        /\ UNCHANGED ThreadVars

InitThreads == InitIn(MainWorld)

NextThreads ==
    \E i \in Workers :
        \/ ThreadArrive(i)
        \/ ThreadCheckSeen(i)
        \/ ThreadMarkSeen(i)
        \/ ThreadProcessText(i)
        \/ ThreadGetFeedback(i)
        \/ ThreadSaveFeedback(i)

SpecThreads == InitThreads /\ [][NextThreads]_vars

(***************************************************************************)
(* SpecCapacity: one requester; each seen set starts empty or holding      *)
(* CACHE_LIMIT entries of earlier events.                                  *)
(***************************************************************************)
\* Ids of n presses handled before the modelled events (ids the modelled
\* presses do not reach).
PriorPressIds(n) == { press_id(CACHE_LIMIT + i) : i \in 1 .. n }

CapacityWorld ==
    World({1}, {UPLOAD_TEXT}, {TextPdf}, {"ok"}, {"text"}, {0, CACHE_LIMIT})

InitCapacity ==
    /\ processed_messages \in { PriorHashes(n) : n \in CapacityWorld.priors }
    /\ processed_callback_ids
           \in { PriorPressIds(n) : n \in CapacityWorld.priors }
    /\ user_states = [c \in Chats |-> None]
    /\ pending_files = [c \in Chats |-> None]
    /\ awaiting_comment = [c \in Chats |-> None]
    /\ feedback = {}
    /\ now = 0
    /\ ticks = 0
    /\ msg_count = [c \in Chats |-> 0]
    /\ cb_count = 0
    /\ issued = [c \in Chats |-> {}]
    /\ ev = NoEvent
    /\ out = <<>>
    /\ ocr = OcrIdle
    /\ net = NetUp
    /\ response = ""
    /\ norm = NormIdle
    /\ threads = [i \in Workers |-> ThreadIdle]
    /\ prompts = [c \in Chats |-> {}]

NextCapacity ==
    \/ WebhookText(CapacityWorld)
    \/ WebhookDocument(CapacityWorld)
    \/ WebhookCallback(CapacityWorld)

SpecCapacity == InitCapacity /\ [][NextCapacity]_vars

(***************************************************************************)
(* SpecTwoChats: two requesters, each with its own sequence of message     *)
(* ids, sending upload intents and text PDFs.                              *)
(***************************************************************************)
TwoChatsWorld == World(Chats, {UPLOAD_TEXT}, {TextPdf}, {"ok"}, {"text"}, {0})

InitTwoChats == InitIn(TwoChatsWorld)

NextTwoChats ==
    \/ WebhookText(TwoChatsWorld)
    \/ WebhookDocument(TwoChatsWorld)

SpecTwoChats == InitTwoChats /\ [][NextTwoChats]_vars

(***************************************************************************)
(* SpecPrompts: one requester uploads long scans and presses buttons of    *)
(* the choice prompts on display.  The press names the prompt it comes     *)
(* from (callback_query.message, line 586); the handler reads only the     *)
(* chat of it.                                                             *)
(***************************************************************************)
PromptsWorld ==
    World({1}, {UPLOAD_TEXT}, {LargeScan(CHUNK + 1)}, {"ok"}, {"text"}, {0})

\* A button of a choice prompt on display is pressed.
WebhookPromptPress(W) ==
    \E chat \in W.chats :
        \E file \in prompts[chat], data \in Range(build_split_options_keyboard) :
            \E rs \in ResultsFor(W, data) :
                /\ Events < MaxEvents
                /\ cb_count' = cb_count + 1
                /\ UNCHANGED msg_count
                /\ Handle(W, [Event("callback", chat, press_id(cb_count + 1),
                                    0, "", NoDoc, data)
                                 EXCEPT !.prompt = file], "ok", rs)

InitPrompts == InitIn(PromptsWorld)

NextPrompts ==
    \/ WebhookText(PromptsWorld)
    \/ WebhookDocument(PromptsWorld)
    \/ WebhookPromptPress(PromptsWorld)

SpecPrompts == InitPrompts /\ [][NextPrompts]_vars

(***************************************************************************)
(* Vocabulary of the properties.                                           *)
(***************************************************************************)
\* The requester's upload intent is at most WAIT_TTL old.
AwaitingFile(states, chat, t) ==
    /\ states[chat] # None
    /\ t - states[chat][1].timestamp <= WAIT_TTL

AwaitingCommentFor(chat) == awaiting_comment[chat] # None

IsMessage(e) == e.kind \in {"text", "document", "other"}

\* The message e has not been handled: its hash is not in the seen set.
FreshMessage(e) ==
    /\ IsMessage(e)
    /\ get_message_hash(e.id, e.date) \notin processed_messages

FreshPress(e) ==
    /\ e.kind = "callback"
    /\ e.id \notin processed_callback_ids

Ops(trace, op) == SelectSeq(trace, LAMBDA x : x.op = op)

ExtractCalls(trace) == Ops(trace, "extract_text_from_pdf")

\* The handler went into rasterization and recognition.
Recognized(trace) == \E x \in Range(ExtractCalls(trace)) : x.text = "ocr"

Downloaded(trace, chat) ==
    /\ Ops(trace, "download") # <<>>
    /\ send_message(chat, "download_error") \notin Range(trace)

CeilDiv(a, b) == (a + b - 1) \div b

StoreUnchanged ==
    UNCHANGED <<processed_messages, processed_callback_ids, user_states,
                pending_files, awaiting_comment, feedback, issued>>

(***************************************************************************)
(* C2 (as claimed).  Message deduplication: when the message delivered     *)
(* last is delivered again, the second delivery is dropped: no state       *)
(* change and nothing outbound, whatever the size of the seen set was at   *)
(* the first delivery.                                                     *)
(***************************************************************************)
C2_RedeliveryDropped ==
    [][(IsMessage(ev) /\ ev' = ev) => (out' = <<>> /\ StoreUnchanged)]_vars

(***************************************************************************)
(* C3.  A document message that arrives while the requester is not         *)
(* AwaitingFile is answered with the guidance reply alone: nothing is      *)
(* downloaded, no extraction runs, pending scan, awaiting-comment entry,   *)
(* feedback and issued buttons are unchanged, and the requester is still   *)
(* not AwaitingFile.                                                       *)
(***************************************************************************)
C3_DocumentOutOfContext ==
    [][(/\ ev'.kind = "document"
        /\ FreshMessage(ev')
        /\ ~AwaitingFile(user_states, ev'.chat, now))
       => (/\ out' = <<send_message(ev'.chat, "press_button_first")>>
           /\ pending_files' = pending_files
           /\ awaiting_comment' = awaiting_comment
           /\ feedback' = feedback
           /\ issued' = issued
           /\ ~AwaitingFile(user_states', ev'.chat, now'))]_vars

\* A document was rejected after the upload intent had expired, while a
\* large scan is pending for the requester.
C3_Witness ==
    /\ ev.kind = "document"
    /\ out = <<send_message(ev.chat, "press_button_first")>>
    /\ pending_files[ev.chat] # None
    /\ now > WAIT_TTL

(***************************************************************************)
(* C4 (as claimed).  A text message that arrives while the requester is in *)
(* AwaitingCommentFor(c) is stored as the comment of c, nothing else is    *)
(* done with the text, the awaiting-comment entry is consumed and the      *)
(* requester is Idle afterwards (neither awaiting a comment nor a file).   *)
(***************************************************************************)
C4_CommentThenIdle ==
    [][(/\ ev'.kind = "text"
        /\ FreshMessage(ev')
        /\ AwaitingCommentFor(ev'.chat))
       => (/\ \E r \in feedback' :
                  /\ r.user_id = ev'.chat
                  /\ r.conversion_id = awaiting_comment[ev'.chat][1]
                  /\ r.comment = Some(ev'.text)
           /\ out' = <<log_event(ev'.chat, "feedback_comment"),
                       send_message(ev'.chat, "comment_saved")>>
           /\ awaiting_comment'[ev'.chat] = None
           /\ ~AwaitingFile(user_states', ev'.chat, now'))]_vars

(***************************************************************************)
(* C5 (as claimed).  A requester is never AwaitingFile and                 *)
(* AwaitingCommentFor at the same time.                                    *)
(***************************************************************************)
C5_OneSessionState ==
    \A c \in Chats : ~(AwaitingFile(user_states, c, now) /\ AwaitingCommentFor(c))

(***************************************************************************)
(* C6.  Large-scan branching: when a PDF is accepted from a requester in   *)
(* AwaitingFile and downloaded, and its embedded text is blank and it has  *)
(* more than 10 pages, the handler makes no extraction call (no            *)
(* rasterization, no recognition), stores the document as the requester's  *)
(* pending large scan and ends by sending the prompt with the two choices. *)
(***************************************************************************)
C6_LargeScanPrompt ==
    [][(/\ ev'.kind = "document"
        /\ FreshMessage(ev')
        /\ AwaitingFile(user_states, ev'.chat, now)
        /\ ev'.doc.mime = PDF
        /\ ev'.doc.file_size <= 20 * MB
        /\ ev'.doc.parse = "ok"
        /\ ev'.doc.blank
        /\ ev'.doc.pages > 10
        /\ Downloaded(out', ev'.chat))
       => (/\ ExtractCalls(out') = <<>>
           /\ pending_files'[ev'.chat] =
                  Some([file |-> FileOf(ev'.chat, ev'.id), doc |-> ev'.doc,
                        num_pages |-> ev'.doc.pages, created_at |-> now])
           /\ out'[Len(out')] =
                  send_keyboard(ev'.chat, "large_scan_choice",
                                <<SPLIT_PDF, OCR_FIRST_10>>)
           /\ {SPLIT_PDF, OCR_FIRST_10} \subseteq issued'[ev'.chat])]_vars

\* An 11-page scan has just been parked and the prompt sent.
C6_Witness ==
    /\ ev.kind = "document"
    /\ ev.doc = LargeScan(CHUNK + 1)
    /\ pending_files[ev.chat] # None
    /\ pending_files[ev.chat][1].file = FileOf(ev.chat, ev.id)
    /\ out # <<>>
    /\ out[Len(out)].text = "large_scan_choice"

(***************************************************************************)
(* C7.  Split choice: for a pending scan of T pages the SPLIT_PDF press    *)
(* issues exactly ceil(T/10) extraction calls, in ascending order, the     *)
(* k-th on pages 10(k-1)+1 .. min(10k, T) of the pending file; the ranges  *)
(* are non-empty, pairwise disjoint and cover exactly pages 1..T.          *)
(***************************************************************************)
PagesOf(call) == call.fp .. call.lp

C7_SplitRanges ==
    [][(/\ FreshPress(ev')
        /\ ev'.data = SPLIT_PDF
        /\ pending_files[ev'.chat] # None)
       => LET T == pending_files[ev'.chat][1].num_pages
              calls == ExtractCalls(out')
          IN  /\ Len(calls) = CeilDiv(T, CHUNK)
              /\ \A k \in 1 .. Len(calls) :
                     /\ calls[k].fp = CHUNK * (k - 1) + 1
                     /\ calls[k].lp = Min(CHUNK * k, T)
                     /\ calls[k].fp <= calls[k].lp
                     /\ calls[k].text = "ocr"
                     /\ calls[k].file = pending_files[ev'.chat][1].file
              /\ \A j, k \in 1 .. Len(calls) :
                     j # k => PagesOf(calls[j]) \cap PagesOf(calls[k]) = {}
              /\ UNION { PagesOf(calls[k]) : k \in 1 .. Len(calls) } = 1 .. T
      ]_vars

\* A split of a MaxPages-page scan has made three calls, the last on a
\* short chunk.
C7_Witness ==
    /\ ev.kind = "callback"
    /\ ev.data = SPLIT_PDF
    /\ Len(ExtractCalls(out)) = MaxChunks
    /\ ExtractCalls(out)[MaxChunks].lp = MaxPages
    /\ ExtractCalls(out)[MaxChunks].lp - ExtractCalls(out)[MaxChunks].fp < 9

(***************************************************************************)
(* C8.  Split chunk isolation: in the SPLIT_PDF handler every extraction   *)
(* call is followed at once, before the next call, by that chunk's result  *)
(* file if it returned text, and by that chunk's failure message if it     *)
(* raised or returned blank text; a failing chunk stops nothing: all       *)
(* ceil(T/10) chunks are extracted.                                        *)
(***************************************************************************)
C8_ChunkIsolation ==
    [][(/\ FreshPress(ev')
        /\ ev'.data = SPLIT_PDF
        /\ pending_files[ev'.chat] # None)
       => LET p == pending_files[ev'.chat][1]
          IN  /\ Len(ExtractCalls(out')) = CeilDiv(p.num_pages, CHUNK)
              /\ \A i \in 1 .. Len(out') :
                     out'[i].op = "extract_text_from_pdf"
                     => /\ i < Len(out')
                        /\ out'[i + 1] =
                               IF out'[i].res = "text"
                               THEN send_document(ev'.chat, "part.txt", p.file,
                                                  out'[i].fp, out'[i].lp)
                               ELSE Effect("send_message", ev'.chat,
                                           IF out'[i].res = "raise"
                                           THEN "chunk_error"
                                           ELSE "chunk_no_text",
                                           0, out'[i].fp, out'[i].lp, <<>>)
              /\ \A i \in 1 .. Len(out') :
                     out'[i].op = "send_document"
                     => /\ i > 1
                        /\ out'[i - 1].op = "extract_text_from_pdf"
                        /\ out'[i - 1].res = "text"
      ]_vars

\* A split whose first chunk raised, whose second chunk was blank and
\* whose third chunk was delivered.
C8_Witness ==
    /\ ev.kind = "callback"
    /\ ev.data = SPLIT_PDF
    /\ Len(ExtractCalls(out)) = 3
    /\ ExtractCalls(out)[1].res = "raise"
    /\ ExtractCalls(out)[2].res = "blank"
    /\ ExtractCalls(out)[3].res = "text"
    /\ Len(Ops(out, "send_document")) = 1
    /\ Ops(out, "send_document")[1].fp = 2 * CHUNK + 1

(***************************************************************************)
(* C9 (as claimed).  ConversionId correlation: the conversion id that the  *)
(* handler reads from each rating button of a feedback prompt and the one  *)
(* it reads from the prompt's comment button are the conversion id         *)
(* generated at delivery (message id, "_", completion time).               *)
(***************************************************************************)
C9_ButtonsCarryConversionId ==
    \A i \in 1 .. Len(out) :
        out[i].text = "rate_quality"
        => LET kb == out[i].kb
               conv == conversion_id(ev.id, now)
           IN  /\ parse_comment(kb[6]) = conv
               /\ \A j \in 1 .. 5 :
                      /\ parse_rate(kb[j]).ok
                      /\ parse_rate(kb[j]).rating = j
                      /\ parse_rate(kb[j]).conv_id = conv

(***************************************************************************)
(* C10 (as claimed).  Feedback uniqueness: when the comment text arrives   *)
(* for a conversion whose prompt has already been used to store a rating,  *)
(* the table afterwards holds exactly one row for (requester, conversion   *)
(* id), with the rating and the comment.                                   *)
(***************************************************************************)
\* A rating pressed on the prompt of conversion conv is in the table.
RatedThroughPrompt(chat, conv) ==
    \E r \in 1 .. 5 :
        /\ rate_button(r, conv) \in issued[chat]
        /\ parse_rate(rate_button(r, conv)).ok
        /\ \E row \in feedback :
               /\ row.user_id = chat
               /\ row.conversion_id = parse_rate(rate_button(r, conv)).conv_id
               /\ row.rating = Some(r)

C10_RatingThenComment ==
    [][(/\ ev'.kind = "text"
        /\ FreshMessage(ev')
        /\ AwaitingCommentFor(ev'.chat)
        /\ RatedThroughPrompt(ev'.chat, awaiting_comment[ev'.chat][1]))
       => LET conv == awaiting_comment[ev'.chat][1]
              rows == { row \in feedback' : /\ row.user_id = ev'.chat
                                             /\ row.conversion_id = conv }
          IN  /\ Cardinality(rows) = 1
              /\ \A row \in rows :
                     /\ row.rating # None
                     /\ row.comment = Some(ev'.text)
      ]_vars

(***************************************************************************)
(* C1 (as claimed).  Page-order invariant: when the recognition loop ends, *)
(* the text handed to the normalizer is the concatenation of the page      *)
(* texts (each followed by "\n") in ascending page index, whatever the     *)
(* order in which the page tasks completed.                                *)
(***************************************************************************)
RECURSIVE InPageOrder(_, _)
InPageOrder(got, i) ==
    IF i > Len(got) THEN <<>>
    ELSE got[i] \o <<"\n">> \o InPageOrder(got, i + 1)

C1_PageOrder == ocr.pc = "done" => ocr.ocr_text = InPageOrder(ocr.got, 1)

(***************************************************************************)
(* C11 (as claimed).  Feedback ledger, first write wins: a call of         *)
(* save_feedback never changes a rating or a comment that the record of    *)
(* its (requester, conversion) key already holds; it only fills fields     *)
(* that are null.                                                          *)
(***************************************************************************)
C11_FirstWriteWins ==
    [][\A old \in feedback :
           \E new \in feedback' :
               /\ new.user_id = old.user_id
               /\ new.conversion_id = old.conversion_id
               /\ old.rating # None => new.rating = old.rating
               /\ old.comment # None => new.comment = old.comment]_vars

(***************************************************************************)
(* C12.  Feedback gating: when a rating given through the prompt of a      *)
(* conversion is stored for the requester, a later press (new press id) of *)
(* any rating button of that prompt stores nothing, leaves the table as it *)
(* is and is answered with the "already saved" reply alone.                *)
(***************************************************************************)
\* The conversion ids of the feedback prompts sent to the chat.
PromptsOf(chat) ==
    { parse_comment(d) :
        d \in { x \in issued[chat] : StartsWith(x, FB_COMMENT_PREFIX) } }

Accepted(e, trace) ==
    /\ e.kind = "document"
    /\ FreshMessage(e)
    /\ AwaitingFile(user_states, e.chat, now)
    /\ e.doc.mime = PDF
    /\ e.doc.file_size <= 20 * MB
    /\ Downloaded(trace, e.chat)

\* The joined embedded text is blank, or reading it raises.
NoEmbeddedText(doc) == doc.parse # "ok" \/ doc.blank

\* The handler can count more than 10 pages.
KnownLong(doc) == doc.parse # "fail" /\ doc.pages > CHUNK

DirectCalls(trace) ==
    SelectSeq(ExtractCalls(trace), LAMBDA x : x.text = "direct")

(***************************************************************************)
(* C13 (as claimed).  For an accepted document, handling the upload runs   *)
(* recognition if and only if the embedded text is blank or cannot be      *)
(* read.                                                                   *)
(***************************************************************************)
C13_RecognitionIffNoText ==
    [][Accepted(ev', out')
       => (Recognized(out') <=> NoEmbeddedText(ev'.doc))]_vars

(***************************************************************************)
(* C13 (amended).  For an accepted document: if the embedded text is       *)
(* non-blank, the handler makes one extraction call, on the direct path,   *)
(* delivers its text and makes no recognition call; if the embedded text   *)
(* is blank or cannot be read, no direct result is used, and recognition   *)
(* (pages 1..10) runs while the upload is handled unless the document is   *)
(* known to have more than 10 pages, when no extraction runs and the scan  *)
(* is parked for the requester's choice.                                   *)
(***************************************************************************)
C13_DirectOrRecognition ==
    [][Accepted(ev', out')
       => LET doc == ev'.doc
              calls == ExtractCalls(out')
              file == FileOf(ev'.chat, ev'.id)
          IN  /\ (~NoEmbeddedText(doc))
                 => /\ Len(calls) = 1
                    /\ calls[1].text = "direct"
                    /\ calls[1].res = "text"
                    /\ send_document(ev'.chat, "result.txt", file, 0, 0)
                           \in Range(out')
              /\ (NoEmbeddedText(doc) /\ KnownLong(doc))
                 => /\ calls = <<>>
                    /\ pending_files'[ev'.chat] # None
                    /\ pending_files'[ev'.chat][1].file = file
              /\ (NoEmbeddedText(doc) /\ ~KnownLong(doc))
                 => /\ Len(calls) = 1
                    /\ calls[1].text = "ocr"
                    /\ calls[1].file = file
                    /\ calls[1].fp = 1
                    /\ calls[1].lp = CHUNK
      ]_vars

\* A short scan was recognized while its upload was handled, and its text
\* delivered.
C13_Witness ==
    /\ ev.kind = "document"
    /\ ev.doc = SmallScan
    /\ Recognized(out)
    /\ send_document(ev.chat, "result.txt", FileOf(ev.chat, ev.id), 0, 0)
           \in Range(out)

(***************************************************************************)
(* C14.  Blank text is a failure: in the trace of every handler, an        *)
(* extraction call that returned blank text is followed at once by the     *)
(* failure message of its path (upload, first 10 pages, split chunk); a    *)
(* result file is sent only directly after an extraction call that         *)
(* returned non-blank text, and a feedback prompt only directly after a    *)
(* result file and its log entry.                                          *)
(***************************************************************************)
BlankReplies == {"no_text_extracted", "first10_no_text", "chunk_no_text"}

C14_BlankIsFailure ==
    /\ \A i \in 1 .. Len(out) :
           (out[i].op = "extract_text_from_pdf" /\ out[i].res = "blank")
           => /\ i < Len(out)
              /\ out[i + 1].op = "send_message"
              /\ out[i + 1].chat = out[i].chat
              /\ out[i + 1].text \in BlankReplies
    /\ \A j \in 1 .. Len(out) :
           out[j].op = "send_document"
           => /\ j > 1
              /\ out[j - 1].op = "extract_text_from_pdf"
              /\ out[j - 1].res = "text"
    /\ \A j \in 1 .. Len(out) :
           out[j].text = "rate_quality"
           => /\ j > 2
              /\ out[j - 2].op = "send_document"

\* An upload whose recognition returned blank text was answered with the
\* failure message, without a file.
C14_Witness ==
    /\ ev.kind = "document"
    /\ Len(ExtractCalls(out)) = 1
    /\ ExtractCalls(out)[1].res = "blank"
    /\ send_message(ev.chat, "no_text_extracted") \in Range(out)
    /\ Ops(out, "send_document") = <<>>

(***************************************************************************)
(* C15.  Unsupported media type: a document message whose declared media   *)
(* type is not application/pdf is answered with one reply (the "only PDF"  *)
(* reply when the requester is AwaitingFile, the guidance reply otherwise) *)
(* and nothing else happens: no download, no log entry, no extraction      *)
(* call; the requester is AwaitingFile afterwards exactly if it was        *)
(* before, and pending scan, awaiting-comment entry, feedback and issued   *)
(* buttons are unchanged.                                                  *)
(***************************************************************************)
C15_NotPdfRejected ==
    [][(/\ ev'.kind = "document"
        /\ FreshMessage(ev')
        /\ ev'.doc.mime # PDF)
       => (/\ out' = <<send_message(ev'.chat,
                                    IF AwaitingFile(user_states, ev'.chat, now)
                                    THEN "only_pdf_accepted"
                                    ELSE "press_button_first")>>
           /\ \A c \in Chats :
                  AwaitingFile(user_states', c, now')
                      <=> AwaitingFile(user_states, c, now)
           /\ pending_files' = pending_files
           /\ awaiting_comment' = awaiting_comment
           /\ feedback' = feedback
           /\ issued' = issued)]_vars

\* An image was refused while the requester was AwaitingFile and a comment
\* was awaited from it.
C15_Witness ==
    /\ ev.kind = "document"
    /\ ev.doc = PngImage
    /\ out = <<send_message(ev.chat, "only_pdf_accepted")>>
    /\ AwaitingFile(user_states, ev.chat, now)
    /\ AwaitingCommentFor(ev.chat)

(***************************************************************************)
(* C16 (as claimed).  A 0-byte upload, also one declared as                *)
(* application/pdf and sent while the requester is AwaitingFile, is        *)
(* rejected: the handler makes no recognition call, sends no file, and the *)
(* requester is AwaitingFile afterwards exactly if it was before, with     *)
(* pending scan and awaiting-comment entry unchanged.                      *)
(***************************************************************************)
C16_EmptyUploadRejected ==
    [][(/\ ev'.kind = "document"
        /\ FreshMessage(ev')
        /\ ev'.doc.file_size = 0)
       => (/\ ~Recognized(out')
           /\ Ops(out', "send_document") = <<>>
           /\ AwaitingFile(user_states', ev'.chat, now')
                  <=> AwaitingFile(user_states, ev'.chat, now)
           /\ pending_files' = pending_files
           /\ awaiting_comment' = awaiting_comment)]_vars

(***************************************************************************)
(* C17.  Every inbound payload is answered OK/200: an empty or unreadable  *)
(* payload, a duplicate, a handler whose download, extraction or           *)
(* recognition fails, and a handler whose outbound posts are refused, time *)
(* out or raise.  A failing post changes nothing in what the handler does: *)
(* the calls it makes and the store it leaves are those of the same        *)
(* handler with a working transport.                                       *)
(***************************************************************************)
C17_AlwaysAcknowledged ==
    [][ev' # NoEvent
       => /\ response' = "OK/200"
          /\ \E fetch \in Fetches, res \in Outcomes :
                 LET r == telegram_webhook(Store, ev', now, fetch,
                                           [k \in 1 .. MaxChunks |-> res])
                 IN  /\ out' = r.out
                     /\ processed_messages' = r.processed_messages
                     /\ processed_callback_ids' = r.processed_callback_ids
                     /\ user_states' = r.user_states
                     /\ pending_files' = r.pending_files
                     /\ awaiting_comment' = r.awaiting_comment
                     /\ feedback' = r.feedback
                     /\ issued' = r.issued]_vars

\* Every post of an upload's handler timed out, from the first reply on;
\* the handler went on to send the result file and the feedback prompt, and
\* the upload was acknowledged.
C17_Witness ==
    /\ ev.kind = "document"
    /\ response = "OK/200"
    /\ net.outcome = "timeout"
    /\ net.from = 1
    /\ out[1] = send_message(ev.chat, "accepted")
    /\ Ops(out, "send_document") # <<>>
    /\ out[Len(out)] = send_message(ev.chat, "done")

(***************************************************************************)
(* C18 (as claimed).  Normalizer idempotence: for every text over letters, *)
(* hyphen, space, tab, line feed and carriage return,                      *)
(* clean_text(clean_text(x)) = clean_text(x).                              *)
(***************************************************************************)
C18_Idempotent == norm.pc = "twice" => norm.z = norm.y

(***************************************************************************)
(* C19.  AwaitingFile lazy expiry.  An upload intent stores the time of    *)
(* the intent.  A document that arrives when the stored intent is more     *)
(* than 1800 s old is answered with the guidance reply alone, and that     *)
(* check removes the entry (the requester is Idle); a document that        *)
(* arrives when the intent is at most 1800 s old is accepted.  The passing *)
(* of time alone never changes the stored entry.                           *)
(***************************************************************************)
C19_LazyExpiry ==
    [][/\ (/\ ev'.kind = "text"
           /\ FreshMessage(ev')
           /\ ev'.text = UPLOAD_TEXT
           /\ ~AwaitingCommentFor(ev'.chat))
          => user_states'[ev'.chat] =
                 Some([waiting_for_file |-> TRUE, timestamp |-> now])
       /\ (/\ ev'.kind = "document"
           /\ FreshMessage(ev')
           /\ user_states[ev'.chat] # None)
          => IF now - user_states[ev'.chat][1].timestamp > WAIT_TTL
             THEN /\ out' = <<send_message(ev'.chat, "press_button_first")>>
                  /\ user_states'[ev'.chat] = None
             ELSE /\ out' # <<>>
                  /\ out'[1] = send_message(ev'.chat, "accepted")
       /\ ev'.kind = "tick" => user_states' = user_states]_vars

\* An intent of time 0 is still stored at time 1800, after a long scan was
\* accepted at that very time.
C19_Witness ==
    /\ ev.kind = "document"
    /\ now = WAIT_TTL
    /\ out[1] = send_message(ev.chat, "accepted")
    /\ user_states[ev.chat] # None
    /\ user_states[ev.chat][1].timestamp = 0
    /\ pending_files[ev.chat] # None
    /\ pending_files[ev.chat][1].created_at = WAIT_TTL

(***************************************************************************)
(* C20 (as claimed).  A choice clears the pending large scan: when a       *)
(* choice press (first 10 pages, or split) has been handled for a          *)
(* requester with a pending scan, the requester has no pending scan any    *)
(* more; a choice press that finds no pending scan runs no recognition and *)
(* gets the "no file found" reply.                                         *)
(***************************************************************************)
C20_ChoiceClearsPending ==
    [][(/\ FreshPress(ev')
        /\ ev'.data \in {SPLIT_PDF, OCR_FIRST_10})
       => IF pending_files[ev'.chat] # None
          THEN pending_files'[ev'.chat] = None
          ELSE /\ ExtractCalls(out') = <<>>
               /\ out' = <<answer_callback_query(ev'.chat),
                           send_message(ev'.chat, "no_file_found")>>]_vars

(***************************************************************************)
(* C21 (as claimed).  Pending large scan time-to-live: a choice press that *)
(* arrives when the pending scan is older than the time-to-live (taken to  *)
(* be the 1800 s of the session state, the only time-to-live the program   *)
(* has) runs no recognition on it, and the scan is discarded.              *)
(***************************************************************************)
C21_PendingExpires ==
    [][(/\ FreshPress(ev')
        /\ ev'.data \in {SPLIT_PDF, OCR_FIRST_10}
        /\ pending_files[ev'.chat] # None
        /\ now - pending_files[ev'.chat][1].created_at > WAIT_TTL)
       => (/\ ExtractCalls(out') = <<>>
           /\ pending_files'[ev'.chat] = None)]_vars

(***************************************************************************)
(* C22.  Button presses have their own fingerprint space, keyed by the     *)
(* press id: a press is dropped (no state change, nothing outbound) if and *)
(* only if a press with the same id was processed before, whatever the     *)
(* message fingerprints on record; and a message whose fingerprint is not  *)
(* on record is not dropped, whatever the press ids on record.  Hence two  *)
(* presses of one button with different ids are both processed.            *)
(***************************************************************************)
C22_PressFingerprints ==
    [][/\ ev'.kind = "callback"
          => ((out' = <<>> /\ StoreUnchanged)
                 <=> ev'.id \in processed_callback_ids)
       /\ FreshMessage(ev') => ~(out' = <<>> /\ StoreUnchanged)]_vars

\* A press was processed although its id equals the fingerprint of a message
\* on record, and it was not the first press processed.
C22_Witness ==
    /\ ev.kind = "callback"
    /\ ev.id \in processed_messages
    /\ out # <<>>
    /\ Cardinality(processed_callback_ids) >= 2

(***************************************************************************)
(* C23 (as claimed).  Two-attempt recognition per page: a page whose       *)
(* recognition with the whitelist configuration failed has been recognized *)
(* exactly once more, with the unconstrained configuration, when its task  *)
(* ends.                                                                   *)
(***************************************************************************)
UNCONSTRAINED == "unconstrained"

C23_SecondAttempt ==
    \A i \in 1 .. Len(ocr.st) :
        ocr.how[i] = "recognition_raises"
            => ocr.calls[i] = <<WHITELIST, UNCONSTRAINED>>

\* The text of page i as the call must account for it: "" for a page on
\* which preprocessing or recognition raised.
Contribution(i) ==
    IF ocr.how[i] \in {"preprocess_raises", "recognition_raises"} THEN <<>>
    ELSE ocr.page[i]

RECURSIVE Aggregate(_)
Aggregate(order) ==
    IF order = <<>> THEN <<>>
    ELSE Contribution(order[1]) \o <<"\n">> \o Aggregate(Tail(order))

\* The orders in which n futures can be taken.
Orders(n) ==
    { o \in [1 .. n -> 1 .. n] : \A i, j \in 1 .. n : o[i] = o[j] => i = j }

(***************************************************************************)
(* C24.  Partial recognition is contained: a call that rasterized at      *)
(* least one page never raises, whatever pages fail; when it returns, the  *)
(* text it aggregated holds, for every page once, "" if the page failed    *)
(* and the page's text otherwise, each followed by a line feed (in the     *)
(* order the futures were taken), and the value returned is clean_text of  *)
(* that aggregate.                                                         *)
(***************************************************************************)
C24_PartialContained ==
    /\ ocr.pc = "raised" => Len(ocr.page) = 0
    /\ ocr.pc = "done"
          => /\ \E o \in Orders(Len(ocr.page)) : ocr.ocr_text = Aggregate(o)
             /\ ocr.result = clean_text(ocr.ocr_text)

\* A call returned the text of one page although another page failed.
C24_Witness ==
    /\ ocr.pc = "done"
    /\ \E i, j \in 1 .. Len(ocr.page) :
           /\ ocr.how[i] = "recognition_raises"
           /\ ocr.how[j] = "ok"
    /\ ocr.result # <<>>

(***************************************************************************)
(* C25 (as claimed).  Preprocessing never blocks recognition: a page on    *)
(* which a preprocessing step raised is still handed to recognition.       *)
(***************************************************************************)
C25_PreprocessingNeverBlocks ==
    \A i \in 1 .. Len(ocr.st) :
        ocr.how[i] = "preprocess_raises" => ocr.calls[i] # <<>>

(***************************************************************************)
(* C26 (as claimed).  Page range invariant: every range first..last handed *)
(* to rasterization for a file whose page count T is known satisfies       *)
(* 1 <= first <= last <= T, for the ranges of the split, of the first-10   *)
(* choice and for the default range of an upload.                          *)
(***************************************************************************)
C26_PageRange ==
    [][\A x \in Range(ExtractCalls(out')) :
           LET T == IF ev'.kind = "document" THEN ev'.doc.pages
                    ELSE pending_files[ev'.chat][1].num_pages
               known == ev'.kind = "document" => ev'.doc.parse = "ok"
           IN  (x.text = "ocr" /\ known)
                   => (1 <= x.fp /\ x.fp <= x.lp /\ x.lp <= T)]_vars

(***************************************************************************)
(* C27 (as claimed).  Concurrent feedback submission: while two rating     *)
(* presses with different ids for one (requester, conversion) are handled  *)
(* at the same time, no step replaces a rating the ledger already holds    *)
(* for that key: the rating stored is the one written first.               *)
(***************************************************************************)
C27_FirstRatingStays ==
    [][\A r \in feedback :
           r.rating # None
               => \E q \in feedback' :
                      /\ q.user_id = r.user_id
                      /\ q.conversion_id = r.conversion_id
                      /\ q.rating = r.rating]_vars

\* Past the seen check and mark: the handler of the event is running or ran.
Proceeded(i) ==
    threads[i].pc \in {"marked", "no_feedback", "refused", "processed"}

(***************************************************************************)
(* C28 (as claimed).  Concurrent re-delivery: when the two threads handle  *)
(* deliveries of the same message, or of the same press, at most one of    *)
(* them gets past the seen check and mark.                                 *)
(***************************************************************************)
C28_OneProceeds ==
    \A i, j \in Workers :
        (i # j /\ threads[i].e = threads[j].e /\ threads[i].pc # "idle")
            => ~(Proceeded(i) /\ Proceeded(j))

(***************************************************************************)
(* C29 (as claimed).  Seen-event sets are bounded: the set of processed    *)
(* message fingerprints and the set of processed press ids each hold at    *)
(* most 1000 entries at any time.                                          *)
(***************************************************************************)
C29_SeenSetsBounded ==
    /\ Cardinality(processed_messages) <= CACHE_LIMIT
    /\ Cardinality(processed_callback_ids) <= CACHE_LIMIT

(***************************************************************************)
(* C30 (as claimed).  A new upload intent resets AwaitingCommentFor: when  *)
(* the requester is in AwaitingCommentFor(c) and sends the upload-intent   *)
(* message, the awaiting-comment entry is dropped, the feedback ledger is  *)
(* left as it was, and the requester is AwaitingFile.                      *)
(***************************************************************************)
C30_UploadIntentResets ==
    [][(/\ ev'.kind = "text"
        /\ ev'.text = UPLOAD_TEXT
        /\ FreshMessage(ev')
        /\ AwaitingCommentFor(ev'.chat))
       => (/\ awaiting_comment'[ev'.chat] = None
           /\ feedback' = feedback
           /\ AwaitingFile(user_states', ev'.chat, now'))]_vars

(***************************************************************************)
(* C31 (as claimed).  Message deduplication is isolated per requester: a   *)
(* message that its requester sends for the first time (it carries the     *)
(* requester's next message id) is processed, not dropped, whatever        *)
(* messages of other requesters were processed before.                     *)
(***************************************************************************)
C31_PerRequesterDedup ==
    [][(/\ IsMessage(ev')
        /\ msg_count'[ev'.chat] = msg_count[ev'.chat] + 1)
       => ~(out' = <<>> /\ StoreUnchanged)]_vars

(***************************************************************************)
(* C32 (as claimed).  One upload intent admits at most one processed       *)
(* document: when a PDF is accepted (the requester is AwaitingFile, the    *)
(* media type and the size pass) and its handling ends without parking it  *)
(* as a pending large scan, the requester is not AwaitingFile afterwards.  *)
(***************************************************************************)
C32_OneDocumentPerIntent ==
    [][(/\ ev'.kind = "document"
        /\ FreshMessage(ev')
        /\ AwaitingFile(user_states, ev'.chat, now)
        /\ ev'.doc.mime = PDF
        /\ ev'.doc.file_size <= 20 * MB
        /\ \A x \in Range(out') : x.text # "large_scan_choice")
       => ~AwaitingFile(user_states', ev'.chat, now')]_vars

(***************************************************************************)
(* C33 (as claimed).  A choice press operates on the document for which    *)
(* the pressed prompt was issued: every recognition call made by the       *)
(* handler of a press of a prompt's button is a call on the file that      *)
(* prompt was sent for, also when a later scan has been uploaded since.    *)
(***************************************************************************)
C33_PressOperatesOnItsDocument ==
    [][(FreshPress(ev') /\ ev'.prompt # 0)
       => \A x \in Range(ExtractCalls(out')) : x.file = ev'.prompt]_vars

====
